---- MODULE Spec2Model ----
(***************************************************************************)
(* A model of the log-structured engine KvStore (src/engines/kvstore.rs). *)
(*                                                                         *)
(* A segment file is a sequence of bytes.  The serde_json encoding of a   *)
(* Command is scaled down to one byte per syntactic part: a Set record is *)
(* the three bytes <<"S", key, value>>, a Remove record the two bytes     *)
(* <<"R", key>>.  Like the JSON encoding it is self-delimited, the two    *)
(* variants differ in length, and a decoder started in the middle of a    *)
(* record or on a cut-off record fails.  COMPACT_THRESHOLD is scaled with *)
(* the record sizes.  Offsets are 0-based as in the code.                 *)
(***************************************************************************)
EXTENDS Integers, Sequences, FiniteSets, TLC

VARIABLES
    dir,               \* the directory: segment id -> bytes of <id>.log
    status,            \* "closed" (no engine instance) or "open"
    index,             \* KvStore.index: key -> CommandPos
    readers,           \* KvStore.readers: id -> BufReaderWithPos (pos, real offset)
    writer,            \* KvStore.writer: the file appended to, and pos
    active_file_id,    \* KvStore.active_file_id
    uncompacted_size,  \* KvStore.uncompacted_size
    shadow,            \* reference map driven by the successful calls
    atClose,           \* what get returned for every key when the engine was dropped
    lastOp,            \* the call made by the last step, and what it returned
    opens,             \* number of calls of open so far
    torn,              \* a crash left a partial record at the end of a segment
    sidecar,           \* the file "engine" of the server's working directory
    server,            \* the kvs-server process: state, engine, exit code, counters
    conn,              \* the last connection: frame read, request, result, frames written
    redb,              \* the Redb engine: its table and the result of its last call
    fault              \* the I/O failure the last call met, and the bytes its writer holds

\* The variables of the KvStore engine and of its observers.
engineVars == <<dir, status, index, readers, writer, active_file_id, uncompacted_size,
                shadow, atClose, lastOp, opens, torn>>

\* The variables of the server and of the second engine.
serverVars == <<sidecar, server, conn, redb>>

vars == <<engineVars, serverVars, fault>>

Keys == {"a", "b"}
Values == {"1", "2"}

\* The variants of enum Engine of kvs-server.
Engines == {"KvStore", "Redb", "Sled"}

\* Bounds of the exploration.
MaxOpens == 3
MaxFileId == 5
MaxReaderPos == 6
MaxFirstBytes == 11
MaxDirBytes == 9
MaxStarts == 3
MaxConns == 3
MaxArrayLen == 3

\* const COMPACT_THRESHOLD: u64 = 1_000_000, scaled to the 3-byte records.
COMPACT_THRESHOLD == 5

EmptyMap == [x \in {} |-> 0]

Put(f, k, v) == [x \in (DOMAIN f) \cup {k} |-> IF x = k THEN v ELSE f[x]]

Del(f, k) == [x \in (DOMAIN f) \ {k} |-> f[x]]

Min(a, b) == IF a < b THEN a ELSE b

\* Results of the calls.
None == <<"None">>
Some(v) == <<"Some", v>>
Ok == <<"Ok">>
Err(e) == <<"Err", e>>
Panic == <<"panic">>

\* serde_json::to_writer(&mut self.writer, &command)
EncodeSet(k, v) == <<"S", k, v>>

EncodeRemove(k) == <<"R", k>>

\* Deserializing one Command from the bytes at offset p.  n is the number of
\* bytes the deserializer has taken from the reader when it returns.
Decode(bytes, p) ==
    LET avail == Len(bytes) - p
        b(i) == bytes[p + i]
    IN  IF avail <= 0 THEN [kind |-> "eof", n |-> 0]
        ELSE IF b(1) = "S" THEN
            IF avail < 2 THEN [kind |-> "err", n |-> 1]
            ELSE IF b(2) \notin Keys THEN [kind |-> "err", n |-> 2]
            ELSE IF avail < 3 THEN [kind |-> "err", n |-> 2]
            ELSE IF b(3) \notin Values THEN [kind |-> "err", n |-> 3]
            ELSE [kind |-> "Set", key |-> b(2), value |-> b(3), n |-> 3]
        ELSE IF b(1) = "R" THEN
            IF avail < 2 THEN [kind |-> "err", n |-> 1]
            ELSE IF b(2) \notin Keys THEN [kind |-> "err", n |-> 2]
            ELSE [kind |-> "Remove", key |-> b(2), n |-> 2]
        ELSE [kind |-> "err", n |-> 1]

CommandPos(file_id, pos, size) == [file_id |-> file_id, pos |-> pos, size |-> size]

\* load_index: replay of one segment from offset pos on.  ok = FALSE when it
\* returns Err (a record that does not decode) or panics (unwrap of the entry
\* of a removed key that is not in the index).
RECURSIVE load_index(_, _, _, _, _)
load_index(file_id, bytes, pos, idx, unc) ==
    IF pos >= Len(bytes) THEN [ok |-> TRUE, index |-> idx, unc |-> unc]
    ELSE LET cmd == Decode(bytes, pos)
             new_pos == pos + cmd.n
         IN  IF cmd.kind = "Set" THEN
                 load_index(file_id, bytes, new_pos,
                            Put(idx, cmd.key, CommandPos(file_id, pos, new_pos - pos)),
                            IF cmd.key \in DOMAIN idx THEN unc + idx[cmd.key].size ELSE unc)
             ELSE IF cmd.kind = "Remove" /\ cmd.key \in DOMAIN idx THEN
                 load_index(file_id, bytes, new_pos, Del(idx, cmd.key),
                            unc + idx[cmd.key].size + (new_pos - pos))
             ELSE [ok |-> FALSE, index |-> idx, unc |-> unc]

\* sorted_file_list: the ids of the segment files, ascending.
RECURSIVE sorted_file_list(_)
sorted_file_list(ids) ==
    IF ids = {} THEN <<>>
    ELSE LET m == CHOOSE x \in ids : \A y \in ids : x <= y
         IN  <<m>> \o sorted_file_list(ids \ {m})

\* The engine as a record, for the operators that model the methods.
Engine(d, i, r, w, a, u) ==
    [dir |-> d, index |-> i, readers |-> r, writer |-> w,
     active_file_id |-> a, uncompacted_size |-> u]

\* new_data_file: creates <file_id>.log when it is missing, opens it for
\* appending (the writer's pos is the cursor right after the open, 0) and
\* puts a new reader for it in the readers map.
new_data_file(d, r, file_id) ==
    [dir |-> IF file_id \in DOMAIN d THEN d ELSE Put(d, file_id, <<>>),
     readers |-> Put(r, file_id, [pos |-> 0, off |-> 0]),
     writer |-> [file_id |-> file_id, pos |-> 0]]

\* The loop of KvStore::open over file_list[i..].
RECURSIVE OpenReplay(_, _, _, _, _, _)
OpenReplay(d, file_list, i, idx, rd, unc) ==
    IF i > Len(file_list) THEN [ok |-> TRUE, index |-> idx, readers |-> rd, unc |-> unc]
    ELSE LET file_id == file_list[i]
             r == load_index(file_id, d[file_id], 0, idx, 0)
         IN  IF ~r.ok THEN [ok |-> FALSE, index |-> idx, readers |-> rd, unc |-> unc]
             ELSE OpenReplay(d, file_list, i + 1, r.index,
                             Put(rd, file_id, [pos |-> Len(d[file_id]), off |-> Len(d[file_id])]),
                             unc + r.unc)

\* KvStore::open on directory d.
KvStoreOpen(d) ==
    LET file_list == sorted_file_list(DOMAIN d)
        rep == OpenReplay(d, file_list, 1, EmptyMap, EmptyMap, 0)
        active == Len(file_list) + 1
        nf == new_data_file(d, rep.readers, active)
    IN  [ok |-> rep.ok,
         e |-> Engine(nf.dir, rep.index, nf.readers, nf.writer, active, rep.unc)]

\* The orders in which HashMap::values_mut can visit the entries of the index.
Orders(S) == {o \in [1..Cardinality(S) -> S] : \A i, j \in 1..Cardinality(S) : o[i] = o[j] => i = j}

\* The loop of KvStore::compact over the index entries order[i..].  st holds the
\* index, the readers, the bytes handed to compaction_writer and new_pos.
\* BufReaderWithPos::seek moves the file offset (off) and leaves pos as it was;
\* BufReaderWithPos::read advances both by the number of bytes read.
RECURSIVE CompactLoop(_, _, _, _, _)
CompactLoop(d, compaction_file_id, order, i, st) ==
    IF i > Len(order) THEN st
    ELSE LET key == order[i]
             cmd_pos == st.index[key]
             reader == st.readers[cmd_pos.file_id]
             from == IF reader.pos # cmd_pos.pos THEN cmd_pos.pos ELSE reader.off
             left == Len(d[cmd_pos.file_id]) - from
             n == IF left <= 0 THEN 0 ELSE Min(cmd_pos.size, left)
             bytes == SubSeq(d[cmd_pos.file_id], from + 1, from + n)
         IN  CompactLoop(d, compaction_file_id, order, i + 1,
                 [index |-> Put(st.index, key, CommandPos(compaction_file_id, st.new_pos, n)),
                  readers |-> Put(st.readers, cmd_pos.file_id,
                                  [pos |-> reader.pos + n, off |-> from + n]),
                  buf |-> st.buf \o bytes,
                  new_pos |-> st.new_pos + n])

\* compact that removes no stale file.
compact_KeepsStale(e, order) ==
    LET compaction_file_id == e.active_file_id + 1
        cf == new_data_file(e.dir, e.readers, compaction_file_id)
        st == CompactLoop(cf.dir, compaction_file_id, order, 1,
                          [index |-> e.index, readers |-> cf.readers,
                           buf |-> <<>>, new_pos |-> 0])
        flushed == [cf.dir EXCEPT ![compaction_file_id] = @ \o st.buf]
        active == e.active_file_id + 2
        nf == new_data_file(flushed, st.readers, active)
    IN  Engine(nf.dir, st.index, nf.readers, nf.writer, active, 0)

\* compact whose stale files are those below the old active file only.
compact_KeepsActive(e, order) ==
    LET compaction_file_id == e.active_file_id + 1
        cf == new_data_file(e.dir, e.readers, compaction_file_id)
        st == CompactLoop(cf.dir, compaction_file_id, order, 1,
                          [index |-> e.index, readers |-> cf.readers,
                           buf |-> <<>>, new_pos |-> 0])
        flushed == [cf.dir EXCEPT ![compaction_file_id] = @ \o st.buf]
        stale_files == {file_id \in DOMAIN st.readers : file_id < e.active_file_id}
        kept_readers == [file_id \in (DOMAIN st.readers) \ stale_files |-> st.readers[file_id]]
        kept_dir == [file_id \in (DOMAIN flushed) \ stale_files |-> flushed[file_id]]
        active == e.active_file_id + 2
        nf == new_data_file(kept_dir, kept_readers, active)
    IN  Engine(nf.dir, st.index, nf.readers, nf.writer, active, 0)

\* compact without the final self.uncompacted_size = 0.
compact_KeepsCount(e, order) ==
    LET compaction_file_id == e.active_file_id + 1
        cf == new_data_file(e.dir, e.readers, compaction_file_id)
        st == CompactLoop(cf.dir, compaction_file_id, order, 1,
                          [index |-> e.index, readers |-> cf.readers,
                           buf |-> <<>>, new_pos |-> 0])
        flushed == [cf.dir EXCEPT ![compaction_file_id] = @ \o st.buf]
        stale_files == {file_id \in DOMAIN st.readers : file_id < compaction_file_id}
        kept_readers == [file_id \in (DOMAIN st.readers) \ stale_files |-> st.readers[file_id]]
        kept_dir == [file_id \in (DOMAIN flushed) \ stale_files |-> flushed[file_id]]
        active == e.active_file_id + 2
        nf == new_data_file(kept_dir, kept_readers, active)
    IN  Engine(nf.dir, st.index, nf.readers, nf.writer, active, e.uncompacted_size)

\* compact that deletes the stale files and keeps their readers in the map.
compact_KeepsReaders(e, order) ==
    LET compaction_file_id == e.active_file_id + 1
        cf == new_data_file(e.dir, e.readers, compaction_file_id)
        st == CompactLoop(cf.dir, compaction_file_id, order, 1,
                          [index |-> e.index, readers |-> cf.readers,
                           buf |-> <<>>, new_pos |-> 0])
        flushed == [cf.dir EXCEPT ![compaction_file_id] = @ \o st.buf]
        stale_files == {file_id \in DOMAIN st.readers : file_id < compaction_file_id}
        kept_dir == [file_id \in (DOMAIN flushed) \ stale_files |-> flushed[file_id]]
        active == e.active_file_id + 2
        nf == new_data_file(kept_dir, st.readers, active)
    IN  Engine(nf.dir, st.index, nf.readers, nf.writer, active, 0)

\* KvStore::compact, visiting the index entries in the given order.  The bytes
\* copied stay in compaction_writer's buffer until the flush after the loop.
compact(e, order) ==
    LET compaction_file_id == e.active_file_id + 1
        cf == new_data_file(e.dir, e.readers, compaction_file_id)
        st == CompactLoop(cf.dir, compaction_file_id, order, 1,
                          [index |-> e.index, readers |-> cf.readers,
                           buf |-> <<>>, new_pos |-> 0])
        flushed == [cf.dir EXCEPT ![compaction_file_id] = @ \o st.buf]
        stale_files == {file_id \in DOMAIN st.readers : file_id < compaction_file_id}
        kept_readers == [file_id \in (DOMAIN st.readers) \ stale_files |-> st.readers[file_id]]
        kept_dir == [file_id \in (DOMAIN flushed) \ stale_files |-> flushed[file_id]]
        active == e.active_file_id + 2
        nf == new_data_file(kept_dir, kept_readers, active)
    IN  Engine(nf.dir, st.index, nf.readers, nf.writer, active, 0)

\* BufWriterWithPos::write followed by flush: the file is opened in append
\* mode, so the bytes go to its end wherever pos stands.
AppendBytes(e, bytes) ==
    [e EXCEPT !.dir[e.writer.file_id] = @ \o bytes,
              !.writer.pos = @ + Len(bytes)]

\* set counting the record it writes as uncompacted, whatever the index held.
SetWrite_CountsNew(e, key, value) ==
    LET pos == e.writer.pos
        w == AppendBytes(e, EncodeSet(key, value))
    IN  [w EXCEPT !.index = Put(@, key, CommandPos(e.active_file_id, pos, w.writer.pos - pos)),
                  !.uncompacted_size = @ + (w.writer.pos - pos)]

\* KvStore::set up to the compaction test.
SetWrite(e, key, value) ==
    LET pos == e.writer.pos
        w == AppendBytes(e, EncodeSet(key, value))
    IN  [w EXCEPT !.index = Put(@, key, CommandPos(e.active_file_id, pos, w.writer.pos - pos)),
                  !.uncompacted_size = IF key \in DOMAIN e.index
                                       THEN @ + e.index[key].size ELSE @]

\* KvStore::remove, for a key of the index, up to the compaction test.
RemoveWrite(e, key) ==
    LET pos == e.writer.pos
        w == AppendBytes(e, EncodeRemove(key))
    IN  [w EXCEPT !.index = Del(@, key),
                  !.uncompacted_size = @ + e.index[key].size + (w.writer.pos - pos)]

\* A test that compacts already at the threshold.
NeedsCompact_AtThreshold(e) == e.uncompacted_size >= COMPACT_THRESHOLD

\* if self.uncompacted_size > COMPACT_THRESHOLD
NeedsCompact(e) == e.uncompacted_size > COMPACT_THRESHOLD

\* What KvStore::get returns for key with index idx over directory d.
GetOf(idx, d, key) ==
    IF key \notin DOMAIN idx THEN None
    ELSE LET cmd == Decode(d[idx[key].file_id], idx[key].pos)
         IN  IF cmd.kind = "Set" THEN Some(cmd.value)
             ELSE IF cmd.kind = "Remove" THEN Err("UnexpectedCommand")
             ELSE Err("SerdeJson")

\* The reader used by KvStore::get after the call: seek to the entry's pos,
\* then the reads of the deserializer.
GetReader(e, key) ==
    LET p == e.index[key]
        n == Decode(e.dir[p.file_id], p.pos).n
    IN  [pos |-> e.readers[p.file_id].pos + n, off |-> p.pos + n]

Current == Engine(dir, index, readers, writer, active_file_id, uncompacted_size)

View(e) == [k \in Keys |-> GetOf(e.index, e.dir, k)]

Install(e) ==
    /\ dir' = e.dir
    /\ index' = e.index
    /\ readers' = e.readers
    /\ writer' = e.writer
    /\ active_file_id' = e.active_file_id
    /\ uncompacted_size' = e.uncompacted_size

\* Total size of the segment files of directory d.
RECURSIVE DirBytes(_, _)
DirBytes(d, ids) ==
    IF ids = {} THEN 0
    ELSE LET id == CHOOSE x \in ids : TRUE
         IN  Len(d[id]) + DirBytes(d, ids \ {id})

\* The directory may grow to MaxFirstBytes in the first session and to
\* MaxDirBytes in the later ones.
DirLimit == IF opens = 1 THEN MaxFirstBytes ELSE MaxDirBytes

NoEngine(d) == Engine(d, EmptyMap, EmptyMap, [file_id |-> 0, pos |-> 0], 0, 0)

Op(op, key, res, compacted) ==
    [op |-> op, key |-> key, res |-> res, compacted |-> compacted]

\* The frames of redis_protocol::resp2.
BulkString(s) == <<"BulkString", s>>
SimpleString(s) == <<"SimpleString", s>>
Error(s) == <<"Error", s>>
Integer(i) == <<"Integer", i>>
Array(frames) == <<"Array", frames>>
Null == <<"Null">>

\* No engine file in the working directory.
NoFile == [exists |-> FALSE, text |-> ""]

\* The server before its first start.
ServerDown ==
    [state |-> "down", arg |-> None, engine |-> None, code |-> 0, starts |-> 0, conns |-> 0]

\* No connection handled yet.
NoConn == [frame |-> Null, request |-> None, res |-> None, sent |-> <<>>]

\* Redb before Database::create: no table, no call yet.
NoRedb == [created |-> FALSE, table |-> EmptyMap, res |-> Ok]

\* No call has met an I/O failure.
NoFault == [at |-> "none", written |-> 0, pending |-> <<>>]

InitEngine ==
    /\ dir = EmptyMap
    /\ status = "closed"
    /\ index = EmptyMap
    /\ readers = EmptyMap
    /\ writer = [file_id |-> 0, pos |-> 0]
    /\ active_file_id = 0
    /\ uncompacted_size = 0
    /\ shadow = [k \in Keys |-> None]
    /\ atClose = [k \in Keys |-> None]
    /\ lastOp = Op("init", "-", Ok, FALSE)
    /\ opens = 0
    /\ torn = FALSE

Init ==
    /\ InitEngine
    /\ sidecar = NoFile
    /\ server = ServerDown
    /\ conn = NoConn
    /\ redb = NoRedb
    /\ fault = NoFault

\* KvStore::open(path).  A panic ends the process and leaves the directory.
Open ==
    /\ status = "closed"
    /\ opens < MaxOpens
    /\ Cardinality(DOMAIN dir) + 1 <= MaxFileId
    /\ LET o == KvStoreOpen(dir)
       IN  IF o.ok
           THEN /\ Install(o.e)
                /\ status' = "open"
                /\ lastOp' = Op("open", "-", Ok, FALSE)
           ELSE /\ Install(NoEngine(dir))
                /\ status' = "closed"
                /\ lastOp' = Op("open", "-", Panic, FALSE)
    /\ opens' = opens + 1
    /\ UNCHANGED <<shadow, atClose, torn>>

\* KvStore::set(key, value)
Set(key, value) ==
    /\ status = "open"
    /\ DirBytes(dir, DOMAIN dir) + Len(EncodeSet(key, value)) <= DirLimit
    /\ LET w == SetWrite(Current, key, value)
       IN  IF NeedsCompact(w)
           THEN /\ w.active_file_id + 2 <= MaxFileId
                /\ \E order \in Orders(DOMAIN w.index) : Install(compact(w, order))
                /\ lastOp' = Op("set", key, Ok, TRUE)
           ELSE /\ Install(w)
                /\ lastOp' = Op("set", key, Ok, FALSE)
    /\ shadow' = [shadow EXCEPT ![key] = Some(value)]
    /\ UNCHANGED <<status, atClose, opens, torn>>

\* KvStore::get(key)
Get(key) ==
    /\ status = "open"
    /\ IF key \in DOMAIN index
       THEN /\ GetReader(Current, key).pos <= MaxReaderPos
            /\ readers' = Put(readers, index[key].file_id, GetReader(Current, key))
       ELSE UNCHANGED readers
    /\ lastOp' = Op("get", key, GetOf(index, dir, key), FALSE)
    /\ UNCHANGED <<dir, status, index, writer, active_file_id, uncompacted_size,
                   shadow, atClose, opens, torn>>

\* remove that appends the tombstone before it looks the key up.
Remove_WritesFirst(key) ==
    /\ status = "open"
    /\ DirBytes(dir, DOMAIN dir) + Len(EncodeRemove(key)) <= DirLimit
    /\ IF key \notin DOMAIN index
       THEN /\ Install(AppendBytes(Current, EncodeRemove(key)))
            /\ lastOp' = Op("remove", key, Err("KeyNotFound"), FALSE)
            /\ UNCHANGED shadow
       ELSE LET w == RemoveWrite(Current, key)
            IN  /\ IF NeedsCompact(w)
                   THEN /\ w.active_file_id + 2 <= MaxFileId
                        /\ \E order \in Orders(DOMAIN w.index) : Install(compact(w, order))
                        /\ lastOp' = Op("remove", key, Ok, TRUE)
                   ELSE /\ Install(w)
                        /\ lastOp' = Op("remove", key, Ok, FALSE)
                /\ shadow' = [shadow EXCEPT ![key] = None]
    /\ UNCHANGED <<status, atClose, opens, torn>>

\* KvStore::remove(key)
Remove(key) ==
    /\ status = "open"
    /\ IF key \notin DOMAIN index
       THEN /\ lastOp' = Op("remove", key, Err("KeyNotFound"), FALSE)
            /\ UNCHANGED <<dir, index, readers, writer, active_file_id,
                           uncompacted_size, shadow>>
       ELSE LET w == RemoveWrite(Current, key)
            IN  /\ DirBytes(dir, DOMAIN dir) + Len(EncodeRemove(key)) <= DirLimit
                /\ IF NeedsCompact(w)
                   THEN /\ w.active_file_id + 2 <= MaxFileId
                        /\ \E order \in Orders(DOMAIN w.index) : Install(compact(w, order))
                        /\ lastOp' = Op("remove", key, Ok, TRUE)
                   ELSE /\ Install(w)
                        /\ lastOp' = Op("remove", key, Ok, FALSE)
                /\ shadow' = [shadow EXCEPT ![key] = None]
    /\ UNCHANGED <<status, atClose, opens, torn>>

\* Drop of the engine (clean shutdown): every record was flushed by its call.
Close ==
    /\ status = "open"
    /\ atClose' = View(Current)
    /\ Install(NoEngine(dir))
    /\ status' = "closed"
    /\ lastOp' = Op("close", "-", Ok, FALSE)
    /\ UNCHANGED <<shadow, opens, torn>>

\* The process dies while set or remove writes its record: a proper prefix of
\* the record has reached the active segment.
Records == {EncodeSet(k, v) : k \in Keys, v \in Values} \cup {EncodeRemove(k) : k \in Keys}

Crash ==
    /\ status = "open"
    /\ ~torn
    /\ \E rec \in Records : \E n \in 1..(Len(rec) - 1) :
           Install(NoEngine([dir EXCEPT ![writer.file_id] = @ \o SubSeq(rec, 1, n)]))
    /\ atClose' = View(Current)
    /\ status' = "closed"
    /\ torn' = TRUE
    /\ lastOp' = Op("crash", "-", Ok, FALSE)
    /\ UNCHANGED <<shadow, opens>>

Next ==
    \/ Open /\ UNCHANGED <<serverVars, fault>>
    \/ \E key \in Keys, value \in Values : Set(key, value) /\ UNCHANGED <<serverVars, fault>>
    \/ \E key \in Keys : Get(key) /\ UNCHANGED <<serverVars, fault>>
    \/ \E key \in Keys : Remove(key) /\ UNCHANGED <<serverVars, fault>>
    \/ Close /\ UNCHANGED <<serverVars, fault>>

Spec == Init /\ [][Next]_vars

NextCrash ==
    \/ Next
    \/ Crash /\ UNCHANGED <<serverVars, fault>>

SpecCrash == Init /\ [][NextCrash]_vars

\* The workload of repeated overwrites: one engine on an empty directory, every
\* set on the same key, reads in between.
FirstOpen == opens = 0 /\ Open

SetOneKey(key, value) ==
    /\ \A k \in Keys \ {key} : shadow[k] = None
    /\ Set(key, value)

NextOverwrite ==
    \/ FirstOpen /\ UNCHANGED <<serverVars, fault>>
    \/ \E key \in Keys, value \in Values : SetOneKey(key, value) /\ UNCHANGED <<serverVars, fault>>
    \/ \E key \in Keys : Get(key) /\ UNCHANGED <<serverVars, fault>>

SpecOverwrite == Init /\ [][NextOverwrite]_vars

\* A stream of records that ends in a record cut off before its last byte.
RECURSIVE EndsPartial(_, _)
EndsPartial(bytes, pos) ==
    IF pos >= Len(bytes) THEN FALSE
    ELSE LET cmd == Decode(bytes, pos)
         IN  IF cmd.kind \in {"Set", "Remove"} THEN EndsPartial(bytes, pos + cmd.n)
             ELSE pos + cmd.n >= Len(bytes)

\* The engine of a set or remove call at the point where it enters compact:
\* the record is written and flushed, index and uncompacted_size are updated.
EntersCompaction ==
    {[key |-> key, value |-> Some(value), w |-> SetWrite(Current, key, value)] :
        key \in Keys, value \in Values}
    \cup {[key |-> key, value |-> None, w |-> RemoveWrite(Current, key)] :
        key \in DOMAIN index}

\* The process dies inside compact, before the stale files are removed: the
\* compaction segment exists and holds the first n of the bytes that the loop
\* copies, every older segment is as it was.
CrashInCompaction ==
    /\ status = "open"
    /\ \E c \in EntersCompaction :
          /\ NeedsCompact(c.w)
          /\ DirBytes(c.w.dir, DOMAIN c.w.dir) <= DirLimit
          /\ c.w.active_file_id + 1 <= MaxFileId
          /\ \E order \in Orders(DOMAIN c.w.index) :
                LET compaction_file_id == c.w.active_file_id + 1
                    cf == new_data_file(c.w.dir, c.w.readers, compaction_file_id)
                    st == CompactLoop(cf.dir, compaction_file_id, order, 1,
                                      [index |-> c.w.index, readers |-> cf.readers,
                                       buf |-> <<>>, new_pos |-> 0])
                IN  \E n \in 0..Len(st.buf) :
                       LET left == [cf.dir EXCEPT ![compaction_file_id] =
                                                      @ \o SubSeq(st.buf, 1, n)]
                       IN  /\ Install(NoEngine(left))
                           /\ torn' = (torn \/ EndsPartial(left[compaction_file_id], 0))
          /\ atClose' = View(c.w)
          /\ shadow' = [shadow EXCEPT ![c.key] = c.value]
          /\ lastOp' = Op("crash_compact", c.key, Ok, FALSE)
    /\ status' = "closed"
    /\ UNCHANGED opens

NextCompactCrash ==
    \/ Next
    \/ CrashInCompaction /\ UNCHANGED <<serverVars, fault>>

SpecCompactCrash == Init /\ [][NextCompactCrash]_vars

(***************************************************************************)
(* The server (src/bin/kvs-server.rs) and its requests (src/bin/common).   *)
(***************************************************************************)

\* serde_json::to_string(&self.engine) of an Option<Engine>.
to_string(engine) ==
    IF engine = None THEN "null" ELSE "\"" \o engine[2] \o "\""

\* serde_json::from_str::<Option<Engine>> of a text to_string produced.
from_str(text) ==
    IF \E e \in Engines : to_string(Some(e)) = text
    THEN Some(CHOOSE e \in Engines : to_string(Some(e)) = text)
    ELSE None

\* Options::current_engine
current_engine(file) ==
    IF ~file.exists THEN None ELSE from_str(file.text)

\* set_engine that stores the requested engine over a different persisted one.
set_engine_Overwrites(file, arg) ==
    LET cur_engine == current_engine(file)
    IN  IF cur_engine = None
        THEN LET engine == IF arg = None THEN Some("KvStore") ELSE arg
             IN  [engine |-> engine, exit |-> None,
                  file |-> [exists |-> TRUE, text |-> to_string(engine)]]
        ELSE IF arg = None
             THEN [engine |-> cur_engine, exit |-> None, file |-> file]
             ELSE [engine |-> arg, exit |-> None,
                   file |-> [exists |-> TRUE, text |-> to_string(arg)]]

\* set_engine that runs the requested engine in spite of a different
\* persisted one.
set_engine_NoExit(file, arg) ==
    LET cur_engine == current_engine(file)
    IN  IF cur_engine = None
        THEN LET engine == IF arg = None THEN Some("KvStore") ELSE arg
             IN  [engine |-> engine, exit |-> None,
                  file |-> [exists |-> TRUE, text |-> to_string(engine)]]
        ELSE IF arg = None
             THEN [engine |-> cur_engine, exit |-> None, file |-> file]
             ELSE [engine |-> arg, exit |-> None, file |-> file]

\* Options::set_engine with --engine arg: the engine of the options after the
\* call, the exit status if the process exits in it, and the engine file.
set_engine(file, arg) ==
    LET cur_engine == current_engine(file)
    IN  IF cur_engine = None
        THEN LET engine == IF arg = None THEN Some("KvStore") ELSE arg
             IN  [engine |-> engine, exit |-> None,
                  file |-> [exists |-> TRUE, text |-> to_string(engine)]]
        ELSE IF arg = None
             THEN [engine |-> cur_engine, exit |-> None, file |-> file]
             ELSE IF cur_engine # arg
                  THEN [engine |-> arg, exit |-> Some(1), file |-> file]
                  ELSE [engine |-> arg, exit |-> None, file |-> file]

\* A bulk string whose bytes are not UTF-8.
InvalidUtf8 == "\\xff"

IsBulkString(frame) == frame[1] = "BulkString"

\* impl TryFrom<Frame> for Request: <<"Set", key, value>>, <<"Get", key>>,
\* <<"Rm", key>> or an error.
try_from(frame) ==
    IF frame[1] # "Array" THEN Err("ParseFrameErr")
    ELSE LET v == SelectSeq(frame[2], IsBulkString)
         IN  IF Len(v) = 0 THEN Err("ParseFrameErr")
             ELSE IF v[1][2] = "set" /\ Len(v) = 3
                  THEN IF v[2][2] = InvalidUtf8 \/ v[3][2] = InvalidUtf8
                       THEN Err("Utf8Error")
                       ELSE <<"Set", v[2][2], v[3][2]>>
             ELSE IF v[1][2] = "get" /\ Len(v) = 2
                  THEN IF v[2][2] = InvalidUtf8 THEN Err("Utf8Error")
                       ELSE <<"Get", v[2][2]>>
             ELSE IF v[1][2] = "remove" /\ Len(v) = 2
                  THEN IF v[2][2] = InvalidUtf8 THEN Err("Utf8Error")
                       ELSE <<"Rm", v[2][2]>>
             ELSE Err("ParseFrameErr")

\* From<Request> that writes the command word of Rm as "rm".
FrameOfRequest_Rm(request) ==
    IF request[1] = "Set"
    THEN Array(<<BulkString("set"), BulkString(request[2]), BulkString(request[3])>>)
    ELSE IF request[1] = "Get"
         THEN Array(<<BulkString("get"), BulkString(request[2])>>)
         ELSE Array(<<BulkString("rm"), BulkString(request[2])>>)

\* impl From<Request> for Frame
FrameOfRequest(request) ==
    IF request[1] = "Set"
    THEN Array(<<BulkString("set"), BulkString(request[2]), BulkString(request[3])>>)
    ELSE IF request[1] = "Get"
         THEN Array(<<BulkString("get"), BulkString(request[2])>>)
         ELSE Array(<<BulkString("remove"), BulkString(request[2])>>)

\* impl From<Response> for Frame, of the result of an engine call.
FrameOfResponse(res) ==
    IF res = Ok THEN SimpleString("OK")
    ELSE IF res[1] = "Some" THEN SimpleString(res[2])
    ELSE Error(res[2])

\* The requests over the keys and values of the exploration.
Requests ==
    {<<"Set", k, v>> : k \in Keys, v \in Values}
        \cup {<<"Get", k>> : k \in Keys} \cup {<<"Rm", k>> : k \in Keys}

\* Redb::set: insert and commit; the write transaction creates the table.
redb_set(db, key, value) ==
    [created |-> TRUE, table |-> Put(db.table, key, value), res |-> Ok]

\* Redb::remove: the Option that table.remove returns is dropped.
redb_remove(db, key) ==
    [created |-> TRUE, table |-> Del(db.table, key), res |-> Ok]

\* Redb::get: what it may return.  A read transaction opening a table that no
\* write transaction has created fails or finds nothing, depending on the
\* version of the redb crate.
redb_get(db, key) ==
    IF ~db.created THEN {Err("Redb"), None}
    ELSE IF key \in DOMAIN db.table THEN {Some(db.table[key])} ELSE {None}

RedbSet(key, value) == redb' = redb_set(redb, key, value)

RedbGet(key) == \E res \in redb_get(redb, key) : redb' = [redb EXCEPT !.res = res]

RedbRemove(key) == redb' = redb_remove(redb, key)

\* main of kvs-server started with --engine arg (None: no --engine).  exit(1)
\* in set_engine, todo!() for Sled and a panic of KvStore::open end the
\* process; otherwise the server listens with the engine opened.
ServerStart(arg) ==
    /\ server.state \in {"down", "exited"}
    /\ server.starts < MaxStarts
    /\ LET options == set_engine(sidecar, arg)
           started == [server EXCEPT !.starts = @ + 1, !.arg = arg,
                                     !.engine = options.engine]
       IN  /\ sidecar' = options.file
           /\ IF options.exit # None
              THEN /\ server' = [started EXCEPT !.state = "exited", !.code = options.exit[2]]
                   /\ UNCHANGED engineVars
              ELSE IF options.engine = Some("KvStore")
              THEN /\ Open
                   /\ server' = IF lastOp'.res = Ok
                                THEN [started EXCEPT !.state = "up", !.code = 0]
                                ELSE [started EXCEPT !.state = "exited", !.code = 101]
              ELSE IF options.engine = Some("Redb")
              THEN /\ server' = [started EXCEPT !.state = "up", !.code = 0]
                   /\ UNCHANGED engineVars
              ELSE /\ server' = [started EXCEPT !.state = "exited", !.code = 101]
                   /\ UNCHANGED engineVars
    /\ UNCHANGED <<conn, redb, fault>>

\* KvsServer::handle_connection on a connection carrying frame.  An error of
\* try_from or of the engine leaves through `?`, which ends start_server.
\* Nothing is written to the stream.
ServerHandle(frame) ==
    /\ server.state = "up"
    /\ server.conns < MaxConns
    /\ LET request == try_from(frame)
       IN  IF request[1] = "Err"
           THEN /\ conn' = [frame |-> frame, request |-> request, res |-> None, sent |-> <<>>]
                /\ server' = [server EXCEPT !.state = "failed", !.conns = @ + 1]
                /\ UNCHANGED <<engineVars, redb>>
           ELSE IF server.engine = Some("KvStore")
           THEN /\ IF request[1] = "Set" THEN Set(request[2], request[3])
                   ELSE IF request[1] = "Get" THEN Get(request[2])
                   ELSE Remove(request[2])
                /\ conn' = [frame |-> frame, request |-> request, res |-> lastOp'.res,
                            sent |-> <<>>]
                /\ server' = [server EXCEPT !.conns = @ + 1,
                                !.state = IF lastOp'.res[1] = "Err" THEN "failed" ELSE "up"]
                /\ UNCHANGED redb
           ELSE /\ IF request[1] = "Set" THEN RedbSet(request[2], request[3])
                   ELSE IF request[1] = "Get" THEN RedbGet(request[2])
                   ELSE RedbRemove(request[2])
                /\ conn' = [frame |-> frame, request |-> request, res |-> redb'.res,
                            sent |-> <<>>]
                /\ server' = [server EXCEPT !.conns = @ + 1,
                                !.state = IF redb'.res[1] = "Err" THEN "failed" ELSE "up"]
                /\ UNCHANGED engineVars
    /\ UNCHANGED <<sidecar, fault>>

\* The end of the server process: main returns the error that ended
\* start_server (exit status 1), or the process is killed while it listens.
\* The engine goes with it; every record was flushed by its call.
ServerStop ==
    /\ server.state \in {"up", "failed"}
    /\ IF server.engine = Some("KvStore") THEN Close ELSE UNCHANGED engineVars
    /\ server' = [server EXCEPT !.state = "exited",
                                !.code = IF server.state = "failed" THEN 1 ELSE 137]
    /\ UNCHANGED <<sidecar, conn, redb, fault>>

\* The frames the clients send: every request, and two frames that are none.
ServerFrames ==
    {FrameOfRequest(r) : r \in Requests}
        \cup {Array(<<BulkString("get")>>), SimpleString("get")}

EngineArgs == {None} \cup {Some(e) : e \in Engines}

NextServer ==
    \/ \E arg \in EngineArgs : ServerStart(arg)
    \/ \E frame \in ServerFrames : ServerHandle(frame)
    \/ ServerStop

SpecServer == Init /\ [][NextServer]_vars

\* Request::try_from applied to the frames of a bounded set.
FrameElements ==
    {BulkString(t) : t \in {"set", "get", "remove", "a", InvalidUtf8}}
        \cup {Integer(1), SimpleString("get"), Null}

ParseFrames ==
    FrameElements \cup {Array(a) : a \in UNION {[1..n -> FrameElements] : n \in 0..MaxArrayLen}}

InitParse ==
    /\ InitEngine
    /\ sidecar = NoFile
    /\ server = ServerDown
    /\ conn \in {[NoConn EXCEPT !.frame = f] : f \in ParseFrames}
    /\ redb = NoRedb
    /\ fault = NoFault

Parse ==
    /\ conn.request = None
    /\ conn' = [conn EXCEPT !.request = try_from(conn.frame)]
    /\ UNCHANGED <<engineVars, sidecar, server, redb, fault>>

SpecParse == InitParse /\ [][Parse]_vars

\* Encoding a request and decoding the frame again.  The strings of a Request
\* are UTF-8 by construction; they include the empty string and the command
\* words themselves.
RequestStrings == {"", "a", "b", "set", "get", "remove"}

AllRequests ==
    {<<"Set", k, v>> : k \in RequestStrings, v \in RequestStrings}
        \cup {<<"Get", k>> : k \in RequestStrings}
        \cup {<<"Rm", k>> : k \in RequestStrings}

InitRoundTrip ==
    /\ InitEngine
    /\ sidecar = NoFile
    /\ server = ServerDown
    /\ conn \in {[NoConn EXCEPT !.request = r] : r \in AllRequests}
    /\ redb = NoRedb
    /\ fault = NoFault

\* Frame::from(request)
FromRequest ==
    /\ conn.frame = Null
    /\ conn' = [conn EXCEPT !.frame = FrameOfRequest(conn.request)]
    /\ UNCHANGED <<engineVars, sidecar, server, redb, fault>>

\* Request::try_from(frame) on the frame just built.
TryFromFrame ==
    /\ conn.frame # Null
    /\ conn.res = None
    /\ conn' = [conn EXCEPT !.res = try_from(conn.frame)]
    /\ UNCHANGED <<engineVars, sidecar, server, redb, fault>>

NextRoundTrip ==
    \/ FromRequest
    \/ TryFromFrame

SpecRoundTrip == InitRoundTrip /\ [][NextRoundTrip]_vars

\* The two engines driven by the same calls, each on its own empty store.
BothOpen == FirstOpen /\ redb' = NoRedb

BothSet(key, value) == Set(key, value) /\ RedbSet(key, value)

BothGet(key) == Get(key) /\ RedbGet(key)

BothRemove(key) == Remove(key) /\ RedbRemove(key)

NextEngines ==
    \/ BothOpen /\ UNCHANGED <<sidecar, server, conn, fault>>
    \/ \E key \in Keys, value \in Values : BothSet(key, value) /\ UNCHANGED <<sidecar, server, conn, fault>>
    \/ \E key \in Keys : BothGet(key) /\ UNCHANGED <<sidecar, server, conn, fault>>
    \/ \E key \in Keys : BothRemove(key) /\ UNCHANGED <<sidecar, server, conn, fault>>

SpecEngines == Init /\ [][NextEngines]_vars

(***************************************************************************)
(* I/O failures in set, remove and compact.  One operation of a call fails *)
(* and the `?` after it returns the error; every other operation succeeds. *)
(* The callers (kvs-server, kvs) end the process on an engine error, so    *)
(* the engine is dropped after a failed call.                              *)
(***************************************************************************)

\* self.writer.flush()? fails after to_writer put the record into the buffer:
\* n bytes of the record have reached the file, pos counts all of them.
WriteFails(e, bytes, n) ==
    [e EXCEPT !.dir[e.writer.file_id] = @ \o SubSeq(bytes, 1, n),
              !.writer.pos = @ + Len(bytes)]

\* The ids compact would remove.
StaleFiles(e) == {file_id \in DOMAIN e.readers : file_id < e.active_file_id + 1}

\* The places where compact can fail: opening the compaction file, the seek
\* or copy of the i-th entry, the flush, removing stale file f, opening the
\* new active file.
CompactFaults(e) ==
    {[at |-> "create", i |-> 0, f |-> 0], [at |-> "flush", i |-> 0, f |-> 0],
     [at |-> "new_active", i |-> 0, f |-> 0]}
        \cup {[at |-> "copy", i |-> i, f |-> 0] : i \in 1..Cardinality(DOMAIN e.index)}
        \cup {[at |-> "remove_file", i |-> 0, f |-> f] : f \in StaleFiles(e)}

\* KvStore::compact left at the failure fl.  The entries visited before it
\* are re-pointed in place; compaction_writer, a local, is dropped on return
\* and its drop flushes the bytes copied so far.
compact_fails(e, order, fl) ==
    LET compaction_file_id == e.active_file_id + 1
        cf == new_data_file(e.dir, e.readers, compaction_file_id)
        visited == IF fl.at = "copy" THEN SubSeq(order, 1, fl.i - 1) ELSE order
        st == CompactLoop(cf.dir, compaction_file_id, visited, 1,
                          [index |-> e.index, readers |-> cf.readers,
                           buf |-> <<>>, new_pos |-> 0])
        flushed == [cf.dir EXCEPT ![compaction_file_id] = @ \o st.buf]
        stale_files == {file_id \in DOMAIN st.readers : file_id < compaction_file_id}
        kept_readers == [file_id \in (DOMAIN st.readers) \ stale_files |-> st.readers[file_id]]
        kept_dir == [file_id \in (DOMAIN flushed) \ stale_files |-> flushed[file_id]]
    IN  IF fl.at = "create" THEN e
        ELSE IF fl.at \in {"copy", "flush"}
        THEN Engine(flushed, st.index, st.readers, e.writer, e.active_file_id,
                    e.uncompacted_size)
        ELSE IF fl.at = "remove_file"
        THEN Engine(flushed, st.index, Del(st.readers, fl.f), e.writer, e.active_file_id,
                    e.uncompacted_size)
        ELSE Engine(kept_dir, st.index, kept_readers, e.writer, e.active_file_id + 2,
                    e.uncompacted_size)

\* KvStore::set(key, value) returning Err(IO): the flush of the record
\* fails, or the compaction the call started does.
SetFault(key, value) ==
    /\ status = "open"
    /\ fault.at = "none"
    /\ DirBytes(dir, DOMAIN dir) + Len(EncodeSet(key, value)) <= DirLimit
    /\ \/ \E n \in 0..(Len(EncodeSet(key, value)) - 1) :
              /\ Install(WriteFails(Current, EncodeSet(key, value), n))
              /\ fault' = [at |-> "write", written |-> n,
                           pending |-> SubSeq(EncodeSet(key, value), n + 1,
                                              Len(EncodeSet(key, value)))]
       \/ LET w == SetWrite(Current, key, value)
          IN  /\ NeedsCompact(w)
              /\ w.active_file_id + 2 <= MaxFileId
              /\ \E order \in Orders(DOMAIN w.index) : \E fl \in CompactFaults(w) :
                     /\ Install(compact_fails(w, order, fl))
                     /\ fault' = [at |-> fl.at, written |-> 0, pending |-> <<>>]
    /\ lastOp' = Op("set", key, Err("IO"), FALSE)
    /\ UNCHANGED <<status, shadow, atClose, opens, torn>>

\* KvStore::remove(key), for a key of the index, returning Err(IO).
RemoveFault(key) ==
    /\ status = "open"
    /\ fault.at = "none"
    /\ key \in DOMAIN index
    /\ DirBytes(dir, DOMAIN dir) + Len(EncodeRemove(key)) <= DirLimit
    /\ \/ \E n \in 0..(Len(EncodeRemove(key)) - 1) :
              /\ Install(WriteFails(Current, EncodeRemove(key), n))
              /\ fault' = [at |-> "write", written |-> n,
                           pending |-> SubSeq(EncodeRemove(key), n + 1,
                                              Len(EncodeRemove(key)))]
       \/ LET w == RemoveWrite(Current, key)
          IN  /\ NeedsCompact(w)
              /\ w.active_file_id + 2 <= MaxFileId
              /\ \E order \in Orders(DOMAIN w.index) : \E fl \in CompactFaults(w) :
                     /\ Install(compact_fails(w, order, fl))
                     /\ fault' = [at |-> fl.at, written |-> 0, pending |-> <<>>]
    /\ lastOp' = Op("remove", key, Err("IO"), FALSE)
    /\ UNCHANGED <<status, shadow, atClose, opens, torn>>

\* Drop of the engine after the failed call: the drop of the writer flushes
\* what its buffer still holds, of which m bytes reach the file.
DropFailed ==
    /\ status = "open"
    /\ fault.at # "none"
    /\ \E m \in 0..Len(fault.pending) :
           /\ Install(NoEngine(IF writer.file_id \in DOMAIN dir
                               THEN [dir EXCEPT ![writer.file_id] =
                                                    @ \o SubSeq(fault.pending, 1, m)]
                               ELSE dir))
           /\ torn' = (torn \/ (fault.written + m > 0 /\ m < Len(fault.pending)))
    /\ atClose' = View(Current)
    /\ status' = "closed"
    /\ lastOp' = Op("close", "-", Ok, FALSE)
    /\ fault' = NoFault
    /\ UNCHANGED <<shadow, opens>>

NextFault ==
    \/ FirstOpen /\ UNCHANGED <<serverVars, fault>>
    \/ \E key \in Keys, value \in Values :
           fault.at = "none" /\ Set(key, value) /\ UNCHANGED <<serverVars, fault>>
    \/ \E key \in Keys : fault.at = "none" /\ Get(key) /\ UNCHANGED <<serverVars, fault>>
    \/ \E key \in Keys : fault.at = "none" /\ Remove(key) /\ UNCHANGED <<serverVars, fault>>
    \/ \E key \in Keys, value \in Values : SetFault(key, value) /\ UNCHANGED serverVars
    \/ \E key \in Keys : RemoveFault(key) /\ UNCHANGED serverVars
    \/ DropFailed /\ UNCHANGED serverVars

SpecFault == Init /\ [][NextFault]_vars

\* The failing calls together with a second session: the engine is dropped,
\* also after a call has failed, and the directory is opened once more.
SecondOpen == opens = 1 /\ Open

NextFaultSessions ==
    \/ NextFault
    \/ SecondOpen /\ UNCHANGED <<serverVars, fault>>
    \/ fault.at = "none" /\ Close /\ UNCHANGED <<serverVars, fault>>

SpecFaultSessions == Init /\ [][NextFaultSessions]_vars

----------------------------------------------------------------------------
(* Properties *)

MaxId(ids) == CHOOSE x \in ids : \A y \in ids : y <= x

\* The offsets in bytes, from pos on, at which the replay finds a Remove of key.
RECURSIVE RemoveOffsets(_, _, _)
RemoveOffsets(bytes, pos, key) ==
    LET cmd == Decode(bytes, pos)
    IN  IF cmd.kind \notin {"Set", "Remove"} THEN {}
        ELSE (IF cmd.kind = "Remove" /\ cmd.key = key THEN {pos} ELSE {})
             \cup RemoveOffsets(bytes, pos + cmd.n, key)

\* C1: in the first session on an empty directory, get(k) returns for every key
\* what an in-memory map driven by the same successful calls holds for k.
C1_GetMatchesMap ==
    (status = "open" /\ opens = 1) => \A k \in Keys : GetOf(index, dir, k) = shadow[k]

\* C2: open after a clean shutdown returns an engine whose get gives for
\* every key the result it gave just before the engine was dropped.
C2_ReopenSameResults ==
    (lastOp.op = "open" /\ opens > 1) => (lastOp.res = Ok /\ View(Current) = atClose)

\* C3: a set or remove that runs compaction returns Ok and leaves the result of
\* get unchanged for every key other than the one written.
C3_CompactionKeepsOtherKeys ==
    [][lastOp'.compacted =>
         /\ lastOp'.res = Ok
         /\ \A k \in Keys \ {lastOp'.key} : GetOf(index', dir', k) = GetOf(index, dir, k)]_vars

\* C4: remove of a key that is not in the index returns KeyNotFound and leaves
\* the segment files, the index, the writer, the active id and
\* uncompacted_size as they were.
C4_RemoveAbsentNoEffect ==
    [][(lastOp'.op = "remove" /\ lastOp'.key \notin DOMAIN index) =>
         /\ lastOp'.res = Err("KeyNotFound")
         /\ dir' = dir
         /\ index' = index
         /\ writer' = writer
         /\ active_file_id' = active_file_id
         /\ uncompacted_size' = uncompacted_size]_vars

\* set(a); remove(a); remove(a): the second remove failed and 1.log holds one
\* Set and one Remove record.
C4_Witness ==
    /\ lastOp = Op("remove", "a", Err("KeyNotFound"), FALSE)
    /\ DOMAIN dir = {1}
    /\ dir[1] = EncodeSet("a", "1") \o EncodeRemove("a")

\* C5: open of a directory whose active segment ends in a partial record
\* returns an engine, and get returns what it returned before the crash (the
\* cut-off record is ignored).
C5_OpenToleratesPartialRecord ==
    (torn /\ lastOp.op = "open") => (lastOp.res = Ok /\ View(Current) = atClose)

\* C6: every index entry for key k designates, in an existing segment, a byte
\* range that holds exactly one complete Set record for k.
C6_IndexPointsAtSetRecord ==
    status = "open" =>
        \A k \in DOMAIN index :
            /\ index[k].file_id \in DOMAIN dir
            /\ LET cmd == Decode(dir[index[k].file_id], index[k].pos)
               IN  cmd.kind = "Set" /\ cmd.key = k /\ cmd.n = index[k].size

\* C7: no key of the index has a Remove record after its indexed Set record
\* in the order (segment id, offset).
C7_NoLaterRemove ==
    status = "open" =>
        \A k \in DOMAIN index : \A f \in DOMAIN dir : \A o \in RemoveOffsets(dir[f], 0, k) :
            ~ (f > index[k].file_id \/ (f = index[k].file_id /\ o > index[k].pos))

\* C8: between operations active_file_id is the largest segment id of the
\* directory and the writer appends to that segment.
C8_ActiveIsLargest ==
    status = "open" =>
        (active_file_id = MaxId(DOMAIN dir) /\ writer.file_id = active_file_id)

\* C9: open makes the active segment a new empty file whose id is
\* max(existing ids) + 1, or 1 in an empty directory.
C9_OpenPicksMaxPlusOne ==
    [][(lastOp'.op = "open" /\ lastOp'.res = Ok) =>
         /\ active_file_id' = (IF DOMAIN dir = {} THEN 1 ELSE MaxId(DOMAIN dir) + 1)
         /\ active_file_id' \notin DOMAIN dir
         /\ dir'[active_file_id'] = <<>>]_vars

\* C10: within one engine instance uncompacted_size is 0 when a call that ran
\* compaction returns, does not decrease in any other call, and is unchanged
\* by get and by a failed remove.
C10_UncompactedMonotone ==
    [][(status = "open" /\ status' = "open") =>
         /\ lastOp'.compacted => uncompacted_size' = 0
         /\ ~lastOp'.compacted => uncompacted_size' >= uncompacted_size
         /\ (lastOp'.op = "get" \/ lastOp'.res # Ok) => uncompacted_size' = uncompacted_size]_vars

\* A set has just run compaction while another key was live.
C10_Witness ==
    /\ lastOp.op = "set"
    /\ lastOp.compacted
    /\ Cardinality(DOMAIN index) = 2
    /\ uncompacted_size = 0

\* Sum of the lengths of the records the index entries describe.
RECURSIVE IndexedBytes(_, _)
IndexedBytes(idx, ks) ==
    IF ks = {} THEN 0
    ELSE LET k == CHOOSE x \in ks : TRUE
         IN  idx[k].size + IndexedBytes(idx, ks \ {k})

\* C11: in every state between operations, after open as well as after set,
\* remove and compaction, uncompacted_size is at most the bytes of the segments
\* that no index entry covers: the total length of the segments minus the
\* total length of the indexed records.
C11_UncompactedLowerBound ==
    status = "open" =>
        uncompacted_size <= DirBytes(dir, DOMAIN dir) - IndexedBytes(index, DOMAIN index)

\* A later session whose open replayed overwritten records, and which has
\* added to the count since.
C11_Witness ==
    /\ status = "open"
    /\ opens > 1
    /\ lastOp.op = "remove"
    /\ lastOp.res = Ok
    /\ ~lastOp.compacted
    /\ uncompacted_size > 3
    /\ index # EmptyMap

\* C12: immediately after any compaction, in the first session or in a later
\* one, every segment file of the directory has an id >= the compaction's id
\* (the active id before the call plus one), and the one file open for writing
\* is the active segment, which is in the directory.
C12_AfterCompaction ==
    [][lastOp'.compacted =>
          /\ \A file_id \in DOMAIN dir' : file_id >= active_file_id + 1
          /\ writer'.file_id = active_file_id'
          /\ active_file_id' \in DOMAIN dir'
          /\ DOMAIN readers' = DOMAIN dir']_vars

\* A compaction in a session opened on a directory in which an earlier
\* session left data.
C12_Witness ==
    /\ lastOp.compacted
    /\ opens > 1
    /\ atClose # [k \in Keys |-> None]
    /\ Cardinality(DOMAIN dir) > 1

\* C13: in a session of repeated sets on one key with values of equal size,
\* once the overwritten bytes have exceeded the threshold (a compaction has
\* run), the total size of the segment files is in every state at most twice
\* the size of the live records plus the size of the active segment.
C13_OverwriteBound ==
    (status = "open" /\ active_file_id > 1) =>
        DirBytes(dir, DOMAIN dir) <=
            2 * IndexedBytes(index, DOMAIN index) + Len(dir[active_file_id])

\* After the first compaction the key has been overwritten again.
C13_Witness ==
    /\ status = "open"
    /\ active_file_id > 1
    /\ uncompacted_size > 0
    /\ lastOp.op = "set"
    /\ Len(dir[active_file_id]) > 0

\* C14: a start of the server selects the engine by the table over (persisted
\* engine, requested engine): without an engine file the requested engine, or
\* KvStore when none is requested, is chosen and written to the file; with a
\* file and no request, or an equal request, the persisted engine is chosen;
\* with a file and a different request the process exits with a non-zero
\* status and the file is not rewritten.
C14_EngineSelection ==
    [][server'.starts = server.starts + 1 =>
          LET cur == current_engine(sidecar)
              arg == server'.arg
          IN  IF cur = None
              THEN /\ server'.engine = (IF arg = None THEN Some("KvStore") ELSE arg)
                   /\ sidecar'.exists
                   /\ current_engine(sidecar') = server'.engine
              ELSE IF arg = None \/ arg = cur
              THEN /\ server'.engine = cur
                   /\ sidecar' = sidecar
              ELSE /\ server'.state = "exited"
                   /\ server'.code # 0
                   /\ sidecar' = sidecar]_vars

\* A start that asked for another engine than the persisted one has exited.
C14_Witness ==
    /\ server.state = "exited"
    /\ server.code = 1
    /\ server.arg # None
    /\ sidecar.exists
    /\ current_engine(sidecar) # server.arg

\* C15: over any sequence of starts with arbitrary --engine arguments, once
\* the engine file names an engine its content never changes, and every start
\* after that which does not exit runs with that engine.
C15_SidecarStable ==
    [][current_engine(sidecar) # None =>
          /\ sidecar' = sidecar
          /\ (server'.starts = server.starts + 1 /\ server'.state = "up") =>
                 server'.engine = current_engine(sidecar)]_vars

\* A later start without --engine runs the engine an earlier start persisted.
C15_Witness ==
    /\ server.starts > 1
    /\ server.state = "up"
    /\ server.arg = None
    /\ server.engine = Some("Redb")
    /\ current_engine(sidecar) = Some("Redb")

\* C16: for every sequence of set, get and remove calls the Redb engine
\* returns what KvStore returns: the same Ok or Err, KeyNotFound for remove of
\* an absent key included, and the same Option for get.
C16_RedbSameResults ==
    lastOp.op \in {"set", "get", "remove"} => redb.res = lastOp.res

\* C17: for a connection that carried a well-formed request the server has
\* called the engine and written exactly one response frame: "OK" for a
\* successful set or remove, the value for a get hit, an error frame when the
\* engine call failed.
C17_OneResponseFrame ==
    (conn.request # None /\ conn.request[1] # "Err") =>
        /\ Len(conn.sent) = 1
        /\ conn.res # None => conn.sent[1] = FrameOfResponse(conn.res)

\* An array of bulk strings only: "set" with two arguments, "get" or "remove"
\* with one.
WellFormedRequest(frame) ==
    /\ frame[1] = "Array"
    /\ Len(frame[2]) >= 1
    /\ \A i \in 1..Len(frame[2]) : IsBulkString(frame[2][i])
    /\ \/ frame[2][1][2] = "set" /\ Len(frame[2]) = 3
       \/ frame[2][1][2] \in {"get", "remove"} /\ Len(frame[2]) = 2

\* C18: try_from succeeds only for a well-formed request frame; every other
\* frame (a non-array, an array with an element that is not a bulk string, an
\* unknown command, a wrong number of arguments) is rejected with the parse
\* error.
C18_OnlyBulkArraysAccepted ==
    (conn.request # None /\ ~WellFormedRequest(conn.frame)) =>
        conn.request = Err("ParseFrameErr")

\* C19: whenever set or remove returns an error (a failed write or flush of
\* the record, or a failure of the compaction the call started), the index
\* and uncompacted_size are exactly as they were before the call.
C19_ErrorLeavesIndex ==
    [][(lastOp'.op \in {"set", "remove"} /\ lastOp'.res[1] = "Err") =>
          /\ index' = index
          /\ uncompacted_size' = uncompacted_size]_vars

\* The engine as it is when the call of lastOp' starts its compaction.
BeforeCompaction(op) ==
    IF op.op = "set"
    THEN {SetWrite(Current, op.key, value) : value \in Values}
    ELSE {RemoveWrite(Current, op.key)}

\* C20: if compaction fails before the old segment files are deleted
\* (creating the compaction segment, seeking, copying an entry, flushing),
\* every segment file it started with is still present with the same
\* contents and every index entry is as it was when compaction started.
C20_FailedCompactionKeepsState ==
    [][(fault.at = "none" /\ fault'.at \in {"create", "copy", "flush"}) =>
          \E w \in BeforeCompaction(lastOp') :
              /\ \A file_id \in DOMAIN w.dir :
                     file_id \in DOMAIN dir' /\ dir'[file_id] = w.dir[file_id]
              /\ index' = w.index]_vars

\* C21: whenever new_data_file has returned the writer, and after every later
\* successful set or remove, writer.pos is the end-of-file offset of the
\* segment the writer appends to, also when that file existed and was not
\* empty; hence the entry a set stores is the offset at which its record
\* starts in the file.
C21_WriterPosIsEof ==
    /\ status = "open" => writer.pos = Len(dir[writer.file_id])
    /\ (status = "open" /\ lastOp.op = "set" /\ ~lastOp.compacted) =>
           LET p == index[lastOp.key]
           IN  /\ Decode(dir[p.file_id], p.pos).kind = "Set"
               /\ Decode(dir[p.file_id], p.pos).key = lastOp.key
               /\ p.pos + p.size = Len(dir[p.file_id])

\* C22: after any sequence of reads and absolute seeks the pos of a
\* BufReaderWithPos is the real read offset of its file.
C22_ReaderPosIsOffset ==
    status = "open" => \A file_id \in DOMAIN readers : readers[file_id].pos = readers[file_id].off

\* The bytes of directory d that entry p describes.
EntryBytes(d, p) ==
    IF p.file_id \in DOMAIN d /\ p.pos + p.size <= Len(d[p.file_id])
    THEN SubSeq(d[p.file_id], p.pos + 1, p.pos + p.size)
    ELSE <<"beyond the end of the file">>

\* C23: compaction copies for each index entry exactly the bytes the entry
\* describes into the compaction segment and re-points the entry to them with
\* the same length; when it returns every entry refers to the compaction
\* segment, the entries' ranges are pairwise disjoint and cover the segment,
\* the indexed keys are the same, and the directory holds the compaction
\* segment and an empty active segment with the next id, nothing else.
C23_CompactionCopiesEntries ==
    [][lastOp'.compacted =>
          \E w \in BeforeCompaction(lastOp') :
              LET compaction_file_id == w.active_file_id + 1
              IN  /\ DOMAIN index' = DOMAIN w.index
                  /\ \A k \in DOMAIN w.index :
                         /\ index'[k].file_id = compaction_file_id
                         /\ index'[k].size = w.index[k].size
                         /\ EntryBytes(dir', index'[k]) = EntryBytes(w.dir, w.index[k])
                  /\ \A j, k \in DOMAIN w.index :
                         j # k => \/ index'[j].pos + index'[j].size <= index'[k].pos
                                  \/ index'[k].pos + index'[k].size <= index'[j].pos
                  /\ IndexedBytes(index', DOMAIN index') = Len(dir'[compaction_file_id])
                  /\ DOMAIN dir' = {compaction_file_id, compaction_file_id + 1}
                  /\ dir'[compaction_file_id + 1] = <<>>]_vars

C25_OpenAfterCompactionCrash ==
    [][(lastOp.op = "crash_compact" /\ lastOp'.op = "open") =>
          /\ lastOp'.res = Ok
          /\ [k \in Keys |-> GetOf(index', dir', k)] = atClose]_vars

\* C26: bytes once written to a segment file never change, a segment file is
\* deleted only by compaction, a segment other than the active one never
\* grows, and an open that returns an engine adds exactly one segment file.
C26_SegmentsAppendOnly ==
    [][/\ \A file_id \in DOMAIN dir \cap DOMAIN dir' :
             /\ Len(dir'[file_id]) >= Len(dir[file_id])
             /\ SubSeq(dir'[file_id], 1, Len(dir[file_id])) = dir[file_id]
             /\ (status = "closed" \/ file_id # active_file_id)
                    => dir'[file_id] = dir[file_id]
       /\ (DOMAIN dir \ DOMAIN dir' # {}) => lastOp'.compacted
       /\ (lastOp'.op = "open" /\ lastOp'.res = Ok)
              => /\ DOMAIN dir \subseteq DOMAIN dir'
                 /\ Cardinality(DOMAIN dir') = Cardinality(DOMAIN dir) + 1]_vars

\* C27: when the engine call of a handled request fails, the server is still
\* up afterwards (it accepts the next connection) and the client was sent one
\* error frame.
C27_EngineErrorReported ==
    [][(server'.conns = server.conns + 1 /\ conn'.res[1] = "Err") =>
          /\ server'.state = "up"
          /\ Len(conn'.sent) = 1
          /\ conn'.sent[1][1] = "Error"]_vars

\* C28: the frame of a request is the array of bulk strings "set", key, value
\* or "get", key or "remove", key, and try_from of that frame succeeds with
\* a request of the same variant, key and value.
C28_RequestRoundTrip ==
    LET r == conn.request
        words == IF r[1] = "Set" THEN <<"set", r[2], r[3]>>
                 ELSE IF r[1] = "Get" THEN <<"get", r[2]>>
                 ELSE <<"remove", r[2]>>
    IN  /\ conn.frame # Null =>
              /\ conn.frame[1] = "Array"
              /\ Len(conn.frame[2]) = Len(words)
              /\ \A i \in 1..Len(words) : conn.frame[2][i] = <<"BulkString", words[i]>>
        /\ conn.res # None => conn.res = r

\* A set whose key is a command word and whose value is empty has been
\* encoded and decoded back.
C28_Witness ==
    /\ conn.request = <<"Set", "get", "">>
    /\ conn.frame # Null
    /\ conn.res = conn.request

\* The index and the segment files after a set or remove whose record has been
\* written (engine w), compacting in the given order if the call compacts.
AfterWrite(w, order) ==
    LET e == IF NeedsCompact(w) THEN compact(w, order) ELSE w
    IN  [index |-> e.index, dir |-> e.dir]

\* C29: a get has no effect on later results.  For the run that performs the
\* get and the run that does not, the next set or remove (visiting the index
\* in the same order if it compacts) leaves the same index and the same
\* segment files.
C29_GetLeavesNoTrace ==
    [][lastOp'.op = "get" =>
          \A key \in Keys :
             /\ \A value \in Values :
                   \A order \in Orders(DOMAIN index \cup {key}) :
                      AfterWrite(SetWrite(Current', key, value), order)
                          = AfterWrite(SetWrite(Current, key, value), order)
             /\ key \in DOMAIN index =>
                   \A order \in Orders(DOMAIN index \ {key}) :
                      AfterWrite(RemoveWrite(Current', key), order)
                          = AfterWrite(RemoveWrite(Current, key), order)]_vars

\* C30: on a directory left by clean sessions of the engine (open, set, get,
\* remove, compactions, drop) open returns an engine: replay meets neither
\* an undecodable record nor a Remove record for a key absent from the index.
C30_OpenAfterCleanSessions ==
    lastOp.op = "open" => lastOp.res = Ok

====
